---- MODULE Spec2Model ----
(***************************************************************************)
(* Model of osc-data's audio feature functions (src/src/audio.rs):         *)
(*   low_frame_rate  - context stacking / frame-rate reduction (3-D)       *)
(*   compute_decibel - per-row energy in decibels, rows mapped in parallel *)
(* and of its streaming sentence splitter (src/src/text_stream.rs):        *)
(*   TextStreamSentencizer - new, push, flush, reset                       *)
(* Spec    drives one call of low_frame_rate on every bounded input.       *)
(* SpecDb  drives one call of compute_decibel, the rows being processed in *)
(*         any order.                                                      *)
(* SpecTxt drives one TextStreamSentencizer through any sequence of push,  *)
(*         flush and reset calls.                                          *)
(***************************************************************************)
EXTENDS Integers, Sequences, FiniteSets, TLC

VARIABLES
    frames,           \* low_frame_rate: the input array [batch, n_frames, n_hidden]
    m,                \* low_frame_rate: context width
    n,                \* low_frame_rate: stride
    overflow_checks,  \* build profile: TRUE = arithmetic overflow panics (debug)
    pc,               \* low_frame_rate: position in the function body
    n_output_frames,  \* audio.rs:70
    repeat_times,     \* audio.rs:74
    output_frames,    \* audio.rs:72, the buffer being filled
    i,                \* audio.rs:90, the loop variable of the remaining-frames loop
    status,           \* "running", "ok" (Ok(array) returned) or "panic"
    panic_at,         \* where the panic was raised ("" when none)
    returned,         \* the array handed back to the caller (NoArray when none)
    db_frames,        \* compute_decibel: the input array [frame_len, H]
    db_pc,            \* compute_decibel: position in the function body
    db_buffer,        \* audio.rs:149, the Vec the parallel map collects into
    db_writes,        \* number of writes each buffer slot has received
    db_done,          \* indices of the rows whose closure has run
    db_status,        \* "running" or "ok" (Ok(array) returned)
    db_returned,      \* the [frame_len, 1] array handed back (NoArray when none)
    buffer,               \* text_stream.rs:15, a string as a sequence of chars
    min_sentence_length,  \* text_stream.rs:17
    use_level2_threshold, \* text_stream.rs:19
    use_level3_threshold, \* text_stream.rs:21
    level1_endings,       \* text_stream.rs:23
    level2_endings,       \* text_stream.rs:25
    level3_endings,       \* text_stream.rs:27
    ts_status,            \* "ok", or "panic" once a call has panicked
    last_op,              \* the last call: "new", "push", "push_empty", "flush", "reset"
    last_result,          \* the Vec<String> the last call returned
    seen_buffer,          \* the buffer as the last split_sentences call read it
    end_indices,          \* what get_sentence_end_indices returned in that call
    pushed_text,          \* every text pushed since the last reset, concatenated
    returned_text         \* every string returned since the last reset, concatenated

lfrVars == <<frames, m, n, overflow_checks, pc, n_output_frames, repeat_times,
             output_frames, i, status, panic_at, returned>>
dbVars == <<db_frames, db_pc, db_buffer, db_writes, db_done, db_status,
           db_returned>>
tsVars == <<buffer, min_sentence_length, use_level2_threshold,
            use_level3_threshold, level1_endings, level2_endings,
            level3_endings, ts_status, last_op, last_result, seen_buffer,
            end_indices, pushed_text, returned_text>>
vars == <<frames, m, n, overflow_checks, pc, n_output_frames, repeat_times,
          output_frames, i, status, panic_at, returned,
          db_frames, db_pc, db_buffer, db_writes, db_done, db_status,
          db_returned,
          buffer, min_sentence_length, use_level2_threshold,
          use_level3_threshold, level1_endings, level2_endings,
          level3_endings, ts_status, last_op, last_result, seen_buffer,
          end_indices, pushed_text, returned_text>>

(***************************************************************************)
(* Bounds of the model.                                                    *)
(***************************************************************************)
MaxBatch == 2
MaxFrames == 5
MaxHidden == 2
MaxM == 5
MaxN == 2
\* usize is modelled at this width (TLC integers are 32-bit); it matters only
\* for m = 0 in a build without overflow checks, where m - 1 wraps around.
UsizeBits == 16
MaxRows == 2
MaxRowLen == 2

UsizeModulus == 2 ^ UsizeBits

(***************************************************************************)
(* Dense arrays: a shape and one value per index tuple (ndarray Array3).   *)
(***************************************************************************)
NoArray == [shape |-> <<>>, data |-> <<>>]

Indices3(shape) == (0 .. shape[1] - 1) \X (0 .. shape[2] - 1) \X (0 .. shape[3] - 1)

\* Array3::<f32>::zeros(shape), audio.rs:72
Zeros3(shape) == [shape |-> shape, data |-> [idx \in Indices3(shape) |-> 0]]

Fills == {"ramp", "index"}

\* The input arrays the model feeds in: "ramp" holds the frame number in every
\* element of a frame, "index" holds a distinct non-zero value in every element.
MakeFrames(B, T, H, fill) ==
    [shape |-> <<B, T, H>>,
     data |-> [idx \in Indices3(<<B, T, H>>) |->
                 IF fill = "ramp" THEN idx[2]
                 ELSE (idx[1] * T + idx[2]) * H + idx[3] + 1]]

batch_size == frames.shape[1]
n_frames == frames.shape[2]
n_hidden == frames.shape[3]

(***************************************************************************)
(* low_frame_rate, audio.rs:60-141                                         *)
(***************************************************************************)
\* faulty variant: truncating division
DivFloor(a, b) == a \div b

\* usize::div_ceil, audio.rs:70 (the caller guards b # 0)
DivCeil(a, b) == IF a % b > 0 THEN a \div b + 1 ELSE a \div b

\* faulty variant: m / 2
RepeatTimesHalfM(mm) == mm \div 2

\* let repeat_times = (m - 1) / 2 in wrapping usize arithmetic, audio.rs:74
RepeatTimes(mm) == ((mm - 1) % UsizeModulus) \div 2

\* m - repeat_times - 1 in usize arithmetic, audio.rs:81
TailCount(mm, rt) == (mm - rt - 1) % UsizeModulus

\* output_frames.slice_mut(s![.., row, slot*n_hidden..(slot+1)*n_hidden]) is in bounds
SliceMutOk(out, row, slot) ==
    /\ row < out.shape[2]
    /\ (slot + 1) * n_hidden <= out.shape[3]

\* frames.slice(s![.., k, ..]) is in bounds
SliceOk(k) == 0 <= k /\ k < n_frames

Panicked == [panic |-> TRUE, out |-> NoArray]

\* for j in 0..count { output_frames.slice_mut(s![.., row, slot[j]*H..(slot[j]+1)*H])
\*                       .assign(&frames.slice(s![.., src[j], ..])); }
\* slot and src give, for each j in 0..count, the output slot and the source frame.
\* An out-of-bounds slice on either side panics; the slots of one loop are disjoint.
ForAssign(out, row, count, slot, src) ==
    IF \E j \in 0 .. count - 1 : ~SliceMutOk(out, row, slot[j]) \/ ~SliceOk(src[j])
    THEN Panicked
    ELSE [panic |-> FALSE,
          out |-> [out EXCEPT !.data =
                     [idx \in DOMAIN out.data |->
                        IF idx[2] = row
                           /\ \E j \in 0 .. count - 1 : idx[3] \div n_hidden = slot[j]
                        THEN LET j == CHOOSE j \in 0 .. count - 1 :
                                          idx[3] \div n_hidden = slot[j]
                             IN  frames.data[<<idx[1], src[j], idx[3] % n_hidden>>]
                        ELSE out.data[idx]]]]

\* faulty variant: the window starts one frame late
RightSrcOffByOne(start, j) ==
    IF start + j + 1 >= n_frames THEN n_frames - 1 ELSE start + j + 1

\* the source frame of slot j when the window starts right of frame 0, audio.rs:128-136
RightSrc(start, j) == IF start + j >= n_frames THEN n_frames - 1 ELSE start + j

\* one iteration of for i in 1..n_output_frames, audio.rs:90-139
RestBody(out, ii) ==
    IF repeat_times > ii * n
    THEN IF repeat_times > ii * n + m
         THEN ForAssign(out, ii, m, [j \in 0 .. m - 1 |-> j], [j \in 0 .. m - 1 |-> 0])
         ELSE LET n_left == repeat_times - ii * n
                  left == ForAssign(out, ii, n_left, [j \in 0 .. n_left - 1 |-> j],
                                    [j \in 0 .. n_left - 1 |-> 0])
              IN  IF left.panic THEN Panicked
                  ELSE ForAssign(left.out, ii, m - n_left,
                                 [j \in 0 .. m - n_left - 1 |-> j + n_left],
                                 [j \in 0 .. m - n_left - 1 |-> j])
    ELSE LET start == ii * n - repeat_times
         IN  ForAssign(out, ii, m, [j \in 0 .. m - 1 |-> j],
                        [j \in 0 .. m - 1 |-> RightSrc(start, j)])

Panic(where) ==
    /\ status' = "panic"
    /\ panic_at' = where
    /\ pc' = "done"
    /\ output_frames' = NoArray
    /\ returned' = NoArray

\* audio.rs:66-74: shapes, allocation of the zeroed output, repeat_times
Alloc ==
    /\ pc = "start"
    /\ UNCHANGED <<frames, m, n, overflow_checks, i>>
    /\ IF n = 0
       THEN /\ Panic("div_ceil: division by zero")
            /\ UNCHANGED <<n_output_frames, repeat_times>>
       ELSE /\ n_output_frames' = DivCeil(n_frames, n)
            /\ IF m = 0 /\ overflow_checks
               THEN /\ Panic("m - 1: subtraction overflow")
                    /\ UNCHANGED repeat_times
               ELSE /\ output_frames' =
                         Zeros3(<<batch_size, DivCeil(n_frames, n), n_hidden * m>>)
                    /\ repeat_times' = RepeatTimes(m)
                    /\ pc' = "first_fill"
                    /\ UNCHANGED <<status, panic_at, returned>>

\* audio.rs:76-80: slots 0..repeat_times of output frame 0 take input frame 0
FirstFill ==
    /\ pc = "first_fill"
    /\ UNCHANGED <<frames, m, n, overflow_checks, i, n_output_frames, repeat_times>>
    /\ LET r == ForAssign(output_frames, 0, repeat_times + 1,
                          [j \in 0 .. repeat_times |-> j],
                          [j \in 0 .. repeat_times |-> 0])
       IN  IF r.panic
           THEN Panic("first frame fill: slice out of bounds")
           ELSE /\ output_frames' = r.out
                /\ pc' = "first_tail"
                /\ UNCHANGED <<status, panic_at, returned>>

\* audio.rs:81-87: the slots after them take input frames 1, 2, ...
FirstTail ==
    /\ pc = "first_tail"
    /\ UNCHANGED <<frames, m, n, overflow_checks, n_output_frames, repeat_times>>
    /\ LET r == ForAssign(output_frames, 0, TailCount(m, repeat_times),
                          [j \in 0 .. TailCount(m, repeat_times) - 1 |->
                              repeat_times + j + 1],
                          [j \in 0 .. TailCount(m, repeat_times) - 1 |-> 1 + j])
       IN  IF r.panic
           THEN /\ Panic("first frame tail: slice out of bounds")
                /\ UNCHANGED i
           ELSE /\ output_frames' = r.out
                /\ pc' = "rest"
                /\ i' = 1
                /\ UNCHANGED <<status, panic_at, returned>>

\* audio.rs:90-139: one output frame i >= 1
RestFrame ==
    /\ pc = "rest"
    /\ i < n_output_frames
    /\ UNCHANGED <<frames, m, n, overflow_checks, n_output_frames, repeat_times>>
    /\ LET r == RestBody(output_frames, i)
       IN  IF r.panic
           THEN /\ Panic("remaining frames: slice out of bounds")
                /\ UNCHANGED i
           ELSE /\ output_frames' = r.out
                /\ i' = i + 1
                /\ UNCHANGED <<pc, status, panic_at, returned>>

\* audio.rs:140: Ok(PyArray3::from_owned_array(py, output_frames))
Return ==
    /\ pc = "rest"
    /\ i >= n_output_frames
    /\ pc' = "done"
    /\ status' = "ok"
    /\ returned' = output_frames
    /\ UNCHANGED <<frames, m, n, overflow_checks, n_output_frames, repeat_times,
                   output_frames, i, panic_at>>

\* no TextStreamSentencizer has been constructed
TsIdle ==
    /\ buffer = <<>>
    /\ min_sentence_length = 0
    /\ use_level2_threshold = 0
    /\ use_level3_threshold = 0
    /\ level1_endings = {}
    /\ level2_endings = {}
    /\ level3_endings = {}
    /\ ts_status = "idle"
    /\ last_op = "idle"
    /\ last_result = <<>>
    /\ seen_buffer = <<>>
    /\ end_indices = <<>>
    /\ pushed_text = <<>>
    /\ returned_text = <<>>

DbIdle ==
    /\ db_frames = NoArray
    /\ db_pc = "idle"
    /\ db_buffer = <<>>
    /\ db_writes = <<>>
    /\ db_done = {}
    /\ db_status = "idle"
    /\ db_returned = NoArray

Init ==
    /\ \E B \in 1 .. MaxBatch, T \in 0 .. MaxFrames, H \in 0 .. MaxHidden, fill \in Fills :
          frames = MakeFrames(B, T, H, fill)
    /\ m \in 0 .. MaxM
    /\ n \in 0 .. MaxN
    /\ overflow_checks \in BOOLEAN
    /\ pc = "start"
    /\ n_output_frames = 0
    /\ repeat_times = 0
    /\ output_frames = NoArray
    /\ i = 0
    /\ status = "running"
    /\ panic_at = ""
    /\ returned = NoArray
    /\ DbIdle
    /\ TsIdle

Next ==
    \/ Alloc /\ UNCHANGED <<dbVars, tsVars>>
    \/ FirstFill /\ UNCHANGED <<dbVars, tsVars>>
    \/ FirstTail /\ UNCHANGED <<dbVars, tsVars>>
    \/ RestFrame /\ UNCHANGED <<dbVars, tsVars>>
    \/ Return /\ UNCHANGED <<dbVars, tsVars>>

Spec == Init /\ [][Next]_vars

(***************************************************************************)
(* f32 arithmetic on the values the model feeds in.  Inputs are integers   *)
(* (exact in f32); a square or a partial sum is rounded to the 24-bit      *)
(* significand, to nearest, ties to even.  The value after .add(1e-6) is   *)
(* [int |-> k, eps |-> e]: k, plus the part of 1e-6 that survived the      *)
(* rounding when e is TRUE.                                                *)
(***************************************************************************)
F32MantissaBits == 24
EpsInverse == 1000000

SampleValues == {-1, 0, 4096}

RECURSIVE ExcessBits(_)
\* the number of low bits a non-negative integer loses in an f32
ExcessBits(x) == IF x < 2 ^ F32MantissaBits THEN 0 ELSE 1 + ExcessBits(x \div 2)

\* round to nearest, ties to even, at F32MantissaBits significant bits
RoundF32(x) ==
    LET s == IF x < 0 THEN 0 ELSE ExcessBits(x)
        q == x \div (2 ^ s)
        r == x % (2 ^ s)
    IN  IF s = 0 THEN x
        ELSE IF 2 * r > 2 ^ s \/ (2 * r = 2 ^ s /\ q % 2 = 1)
             THEN (q + 1) * (2 ^ s)
             ELSE q * (2 ^ s)

\* faulty variant: the element is not squared
Pow2Identity(x) == x

\* row.pow2(): every element squared, audio.rs:154
Pow2F32(x) == RoundF32(x * x)

RECURSIVE SumF32(_, _, _)
\* .sum(): the elements added left to right from 0.0, each partial sum rounded
\* (ndarray's fold over a row shorter than its 8-lane unrolling), audio.rs:154
SumF32(row, k, acc) ==
    IF k >= Len(row) THEN acc
    ELSE SumF32(row, k + 1, RoundF32(acc + row[k + 1]))

RECURSIVE Pow2Floor(_)
\* the largest power of two not above x >= 1
Pow2Floor(x) == IF x < 2 THEN 1 ELSE 2 * Pow2Floor(x \div 2)

\* faulty variant: no epsilon is added
AddNothing(e) == [int |-> e, eps |-> FALSE]

\* .add(1e-6): 1e-6 is lost when it is below half a unit in the last place of the
\* energy e, i.e. when 2^(k-24) > 1e-6 for 2^k = Pow2Floor(e); audio.rs:154
AddEps(e) ==
    IF e <= 0 THEN [int |-> e, eps |-> TRUE]
    ELSE [int |-> e, eps |-> ~(Pow2Floor(e) > (2 ^ F32MantissaBits) \div EpsInverse)]

\* A result: finite (ten times the log10 of the f32 argument ten_log10), -inf or NaN.
F32Zero == [int |-> 0, eps |-> FALSE]
NegInf == [class |-> "-inf", ten_log10 |-> F32Zero]
NaN == [class |-> "nan", ten_log10 |-> F32Zero]
Finite(a) == [class |-> "finite", ten_log10 |-> a]

\* .log10() * 10.: the logarithm is kept symbolic, as ten times the log10 of its
\* f32 argument; log10(0) is -inf and log10 of a negative number is NaN; audio.rs:154
TenLog10(a) ==
    IF a = F32Zero THEN NegInf
    ELSE IF a.int < 0 THEN NaN
    ELSE Finite(a)

\* the closure of the parallel map, audio.rs:154
Decibel(row) ==
    TenLog10(AddEps(SumF32([k \in 1 .. Len(row) |-> Pow2F32(row[k])], 0, 0)))

\* x > y on results: false when either is NaN, -inf below every finite value,
\* finite values ordered as their arguments (log10 is increasing)
DbGreater(x, y) ==
    /\ x.class \in {"finite", "-inf"} /\ y.class \in {"finite", "-inf"}
    /\ x # NegInf
    /\ \/ y = NegInf
       \/ x.ten_log10.int > y.ten_log10.int
       \/ x.ten_log10.int = y.ten_log10.int /\ x.ten_log10.eps /\ ~y.ten_log10.eps

DbGeq(x, y) ==
    /\ x.class \in {"finite", "-inf"} /\ y.class \in {"finite", "-inf"}
    /\ (x = y \/ DbGreater(x, y))

(***************************************************************************)
(* compute_decibel, audio.rs:144-161                                       *)
(***************************************************************************)
Indices2(shape) == (0 .. shape[1] - 1) \X (0 .. shape[2] - 1)

frame_len == db_frames.shape[1]
row_len == db_frames.shape[2]

\* row r of the input as a sequence, frames.as_array().axis_iter(Axis(0)), audio.rs:150-152
Row(r) == [k \in 1 .. row_len |-> db_frames.data[<<r, k - 1>>]]

Uninit == [class |-> "uninit", ten_log10 |-> F32Zero]

\* faulty variant: results are appended in the order the rows complete
SlotOfCompletionOrder(r, ran) == ran

\* the buffer slot the result of row r is written to: collect_into_vec of an
\* indexed parallel iterator writes item r into slot r, whatever ran before it;
\* ran is the number of rows already processed; audio.rs:153-155
SlotOf(r, ran) == r

\* audio.rs:148-149 and the start of collect_into_vec: the buffer is sized to
\* frame_len, its slots not yet written
DbStart ==
    /\ db_pc = "start"
    /\ db_pc' = "map"
    /\ db_buffer' = [r \in 0 .. frame_len - 1 |-> Uninit]
    /\ db_writes' = [r \in 0 .. frame_len - 1 |-> 0]
    /\ UNCHANGED <<db_frames, db_done, db_status, db_returned>>

\* audio.rs:153-155: the closure runs on row r, on whichever worker picks it up
DbMapRow(r) ==
    /\ db_pc = "map"
    /\ r \notin db_done
    /\ LET slot == SlotOf(r, Cardinality(db_done))
       IN  /\ db_buffer' = [db_buffer EXCEPT ![slot] = Decibel(Row(r))]
           /\ db_writes' = [db_writes EXCEPT ![slot] = @ + 1]
    /\ db_done' = db_done \cup {r}
    /\ UNCHANGED <<db_frames, db_pc, db_status, db_returned>>

\* audio.rs:156-160: once every row is collected the buffer is reshaped to
\* (frame_len, 1) and returned
DbReturn ==
    /\ db_pc = "map"
    /\ db_done = 0 .. frame_len - 1
    /\ db_pc' = "done"
    /\ db_status' = "ok"
    /\ db_returned' = [shape |-> <<frame_len, 1>>,
                       data |-> [idx \in Indices2(<<frame_len, 1>>) |->
                                   db_buffer[idx[1]]]]
    /\ UNCHANGED <<db_frames, db_buffer, db_writes, db_done>>

LfrIdle ==
    /\ frames = NoArray
    /\ m = 0
    /\ n = 0
    /\ overflow_checks = FALSE
    /\ pc = "idle"
    /\ n_output_frames = 0
    /\ repeat_times = 0
    /\ output_frames = NoArray
    /\ i = 0
    /\ status = "idle"
    /\ panic_at = ""
    /\ returned = NoArray

InitDb ==
    /\ LfrIdle
    /\ TsIdle
    /\ \E T \in 0 .. MaxRows, H \in 0 .. MaxRowLen :
          db_frames \in {[shape |-> <<T, H>>, data |-> d] :
                            d \in [Indices2(<<T, H>>) -> SampleValues]}
    /\ db_pc = "start"
    /\ db_buffer = <<>>
    /\ db_writes = <<>>
    /\ db_done = {}
    /\ db_status = "running"
    /\ db_returned = NoArray

NextDb ==
    \/ DbStart /\ UNCHANGED <<lfrVars, tsVars>>
    \/ \E r \in 0 .. frame_len - 1 : DbMapRow(r) /\ UNCHANGED <<lfrVars, tsVars>>
    \/ DbReturn /\ UNCHANGED <<lfrVars, tsVars>>

SpecDb == InitDb /\ [][NextDb]_vars

(***************************************************************************)
(* TextStreamSentencizer (text_stream.rs).  A String is a sequence of      *)
(* chars; every char has its UTF-8 width, and the code's indices are byte  *)
(* offsets into the String, so the model keeps both the char position and  *)
(* the byte offset of every char.                                          *)
(***************************************************************************)
MaxPushed == 3
MaxText == 2

\* the chars of one byte; every other char of the model is a CJK or
\* full-width char of three bytes
Ascii == {"a", "!", "?", ";", ",", ":"}

\* char::len_utf8, text_stream.rs:131
len_utf8(c) == IF c \in Ascii THEN 1 ELSE 3

\* text_stream.rs:4-6
LEVEL1_ENDINGS == <<"!", "?", "cjk_full_stop", "fullwidth_question",
                    "fullwidth_exclamation", "fullwidth_semicolon", ";">>
LEVEL2_ENDINGS == <<"cjk_enumeration_comma", ",", "fullwidth_comma">>
LEVEL3_ENDINGS == <<":", "fullwidth_colon">>

\* the chars the pushed texts are made of: a letter and an ending of each
\* level, the level-1 ending being three bytes wide
Alphabet == {"a", "cjk_full_stop", ",", ":"}

Texts == UNION {[1 .. k -> Alphabet] : k \in 0 .. MaxText}

\* Option<Vec<char>> arguments of new
None == [is_some |-> FALSE, value |-> <<>>]
Some(v) == [is_some |-> TRUE, value |-> v]

\* the default level-1 endings, or the letter as the only level-1 ending
L1Choices == {None, Some(<<"a">>)}
MinLengths == {1, 3}
Level2Thresholds == {1}
Level3Thresholds == {0, 2}

\* Option::unwrap_or, text_stream.rs:43, 47, 51
unwrap_or(opt, default) == IF opt.is_some THEN opt.value ELSE default

\* .into_iter().collect() into a HashSet<char>, text_stream.rs:44-45
collect(v) == {v[k] : k \in 1 .. Len(v)}

\* str::len: the length in bytes
RECURSIVE ByteLen(_)
ByteLen(s) == IF s = <<>> THEN 0 ELSE len_utf8(Head(s)) + ByteLen(Tail(s))

\* the byte offset at which the k-th char of s starts (k = Len(s) + 1: its end)
ByteOffset(s, k) == ByteLen(SubSeq(s, 1, k - 1))

\* str::char_indices, text_stream.rs:129
char_indices(s) == [k \in 1 .. Len(s) |-> [i |-> ByteOffset(s, k), c |-> s[k]]]

NextByteIndex(idx, c) == idx + len_utf8(c)

\* text_stream.rs:132 Some(i + c.len_utf8() - 1): the last byte of the char
LastByteIndex(idx, c) == idx + len_utf8(c) - 1

\* the filter_map(..).collect() of text_stream.rs:127-137, 140-150, 153-162
RECURSIVE FilterMapEnds(_, _)
FilterMapEnds(pairs, endings) ==
    IF pairs = <<>> THEN <<>>
    ELSE LET p == Head(pairs)
             rest == FilterMapEnds(Tail(pairs), endings)
         IN  IF p.c \in endings THEN <<LastByteIndex(p.i, p.c)>> \o rest
             ELSE rest

ExceedsOrEquals(count, threshold) == count >= threshold

\* text_stream.rs:139, 152: buffer_char_length > self.use_levelN_threshold
Exceeds(count, threshold) == count > threshold

\* text_stream.rs:126-169
get_sentence_end_indices(buf) ==
    LET sents_l1 == FilterMapEnds(char_indices(buf), level1_endings)
        buffer_char_length == Len(buf)
    IN  IF sents_l1 = <<>> /\ Exceeds(buffer_char_length, use_level2_threshold)
        THEN LET sents_l2 == FilterMapEnds(char_indices(buf), level2_endings)
             IN  IF sents_l2 = <<>>
                    /\ Exceeds(buffer_char_length, use_level3_threshold)
                 THEN FilterMapEnds(char_indices(buf), level3_endings)
                 ELSE sents_l2
        ELSE sents_l1

\* a byte offset that is the start of a char, or the end of the string
IsCharBoundary(s, b) == \E k \in 1 .. Len(s) + 1 : ByteOffset(s, k) = b

CharAt(s, b) == CHOOSE k \in 1 .. Len(s) + 1 : ByteOffset(s, k) = b

\* &s[lo..hi] panics unless lo <= hi and both are char boundaries
StrSliceOk(s, lo, hi) == lo <= hi /\ IsCharBoundary(s, lo) /\ IsCharBoundary(s, hi)

\* &s[lo..hi], the bytes lo .. hi - 1 (text_stream.rs:75, 96, 114)
StrSlice(s, lo, hi) == SubSeq(s, CharAt(s, lo), CharAt(s, hi) - 1)

SentLengthBytes(sent) == ByteLen(sent)

\* text_stream.rs:115 sent.chars().count()
SentLength(sent) == Len(sent)

\* the for loop of text_stream.rs:113-121, one iteration per end index
RECURSIVE SplitLoop(_, _, _)
SplitLoop(buf, ends, acc) ==
    IF ends = <<>> \/ acc.panic THEN acc
    ELSE LET end == Head(ends)
         IN  IF ~StrSliceOk(buf, acc.start, end + 1)
             THEN [acc EXCEPT !.panic = TRUE]
             ELSE LET sent == StrSlice(buf, acc.start, end + 1)
                      sent_length == SentLength(sent)
                  IN  SplitLoop(buf, Tail(ends),
                         IF sent # <<>> /\ sent_length >= min_sentence_length
                         THEN [sentences |-> Append(acc.sentences, sent),
                               sent_indices |-> Append(acc.sent_indices, end),
                               start |-> end + 1,
                               panic |-> FALSE]
                         ELSE acc)

\* text_stream.rs:107-124
split_sentences(buf) ==
    SplitLoop(buf, get_sentence_end_indices(buf),
              [sentences |-> <<>>, sent_indices |-> <<>>, start |-> 0,
               panic |-> FALSE])

RemainingStartAtLast(indices) == indices[Len(indices)]

\* text_stream.rs:74, 95: indices.last().unwrap() + 1
RemainingStart(indices) == indices[Len(indices)] + 1

\* the strings of a Vec<String>, joined in order
RECURSIVE Concat(_)
Concat(strings) ==
    IF strings = <<>> THEN <<>> ELSE Head(strings) \o Concat(Tail(strings))

tsConfig == <<min_sentence_length, use_level2_threshold, use_level3_threshold,
              level1_endings, level2_endings, level3_endings>>

\* text_stream.rs:65-78
push(text) ==
    /\ ts_status = "ok"
    /\ Len(pushed_text) + Len(text) <= MaxPushed
    /\ IF text = <<>>
       THEN \* text_stream.rs:66-68
            /\ last_op' = "push_empty"
            /\ last_result' = <<>>
            /\ UNCHANGED <<buffer, ts_status, seen_buffer, end_indices,
                           pushed_text, returned_text>>
       ELSE LET buf == buffer \o text
                split == split_sentences(buf)
                sentences == split.sentences
                indices == split.sent_indices
                remaining_start == RemainingStart(indices)
                slice_ok == indices = <<>>
                            \/ StrSliceOk(buf, remaining_start, ByteLen(buf))
            IN  /\ last_op' = "push"
                /\ seen_buffer' = buf
                /\ end_indices' = get_sentence_end_indices(buf)
                /\ pushed_text' = pushed_text \o text
                /\ IF split.panic \/ ~slice_ok
                   THEN /\ ts_status' = "panic"
                        /\ buffer' = buf
                        /\ last_result' = <<>>
                        /\ UNCHANGED returned_text
                   ELSE /\ ts_status' = "ok"
                        /\ buffer' = IF indices # <<>>
                                     THEN StrSlice(buf, remaining_start, ByteLen(buf))
                                     ELSE buf
                        /\ last_result' = sentences
                        /\ returned_text' = returned_text \o Concat(sentences)
    /\ UNCHANGED tsConfig

\* text_stream.rs:80-105
flush ==
    /\ ts_status = "ok"
    /\ LET split == split_sentences(buffer)
           sentences == split.sentences
           indices == split.sent_indices
           remaining_start == RemainingStart(indices)
           whole == sentences # <<>>
                    /\ indices[Len(indices)] = ByteLen(buffer) - 1
           slice_ok == sentences = <<>> \/ whole
                       \/ StrSliceOk(buffer, remaining_start, ByteLen(buffer))
           remaining == StrSlice(buffer, remaining_start, ByteLen(buffer))
           result == IF sentences = <<>>
                     THEN IF Len(buffer) > 0 THEN <<buffer>> ELSE <<>>
                     ELSE IF whole THEN sentences
                     ELSE IF Len(remaining) > 0 THEN Append(sentences, remaining)
                     ELSE sentences
       IN  /\ last_op' = "flush"
           /\ seen_buffer' = buffer
           /\ end_indices' = get_sentence_end_indices(buffer)
           /\ IF split.panic \/ ~slice_ok
              THEN /\ ts_status' = "panic"
                   /\ last_result' = <<>>
                   /\ UNCHANGED <<buffer, returned_text>>
              ELSE /\ ts_status' = "ok"
                   /\ buffer' = <<>>
                   /\ last_result' = result
                   /\ returned_text' = returned_text \o Concat(result)
    /\ UNCHANGED pushed_text
    /\ UNCHANGED tsConfig

\* text_stream.rs:171-173
reset ==
    /\ ts_status = "ok"
    /\ buffer' = <<>>
    /\ last_op' = "reset"
    /\ last_result' = <<>>
    /\ pushed_text' = <<>>
    /\ returned_text' = <<>>
    /\ UNCHANGED <<ts_status, seen_buffer, end_indices>>
    /\ UNCHANGED tsConfig

\* text_stream.rs:34-63, new.  The configuration is the one given to new: the
\* generated property setters are not driven, every call reads the fields as
\* they are when it runs.
InitTxt ==
    /\ LfrIdle
    /\ DbIdle
    /\ \E l1_ends \in L1Choices :
          level1_endings = collect(unwrap_or(l1_ends, LEVEL1_ENDINGS))
    /\ level2_endings = collect(unwrap_or(None, LEVEL2_ENDINGS))
    /\ level3_endings = collect(unwrap_or(None, LEVEL3_ENDINGS))
    /\ min_sentence_length \in MinLengths
    /\ use_level2_threshold \in Level2Thresholds
    /\ use_level3_threshold \in Level3Thresholds
    /\ buffer = <<>>
    /\ ts_status = "ok"
    /\ last_op = "new"
    /\ last_result = <<>>
    /\ seen_buffer = <<>>
    /\ end_indices = <<>>
    /\ pushed_text = <<>>
    /\ returned_text = <<>>

NextTxt ==
    \/ \E text \in Texts : push(text) /\ UNCHANGED <<lfrVars, dbVars>>
    \/ flush /\ UNCHANGED <<lfrVars, dbVars>>
    \/ reset /\ UNCHANGED <<lfrVars, dbVars>>

SpecTxt == InitTxt /\ [][NextTxt]_vars

\* the buffer while the call runs, the returned array once it has returned
output_or_returned == IF returned # NoArray THEN returned ELSE output_frames

(***************************************************************************)
(* Claims about low_frame_rate, checked under Spec.                        *)
(***************************************************************************)
ValidInput == n_frames > 0 /\ n_hidden > 0 /\ m >= 1 /\ n >= 1

Clamp(x, lo, hi) == IF x < lo THEN lo ELSE IF x > hi THEN hi ELSE x

\* ceil(T/n) as the specification writes it
CeilDiv(a, b) == (a + b - 1) \div b

\* every slot [b, r, j*H .. (j+1)*H] of out holds frames[b, clamp(r*n - (m-1)/2 + j, 0, T-1)]
ClampLawOf(out) ==
    \A b \in 0 .. batch_size - 1, r \in 0 .. CeilDiv(n_frames, n) - 1,
       j \in 0 .. m - 1, h \in 0 .. n_hidden - 1 :
        /\ <<b, r, j * n_hidden + h>> \in DOMAIN out.data
        /\ out.data[<<b, r, j * n_hidden + h>>] =
               frames.data[<<b, Clamp(r * n - (m - 1) \div 2 + j, 0, n_frames - 1), h>>]

\* C1: clamp law. For every valid input (T>0, H>0, m>=1, n>=1) the call yields an
\* output in which every slot [b, i, j*H..(j+1)*H] is a copy of source frame
\* clamp(i*n - (m-1)/2 + j, 0, T-1), in every branch of the code.
C1_ClampLaw ==
    (pc = "done" /\ ValidInput) => (status = "ok" /\ ClampLawOf(returned))

\* What does hold of the code: an output that is returned obeys the clamp law.
ClampLawWhenReturned ==
    (pc = "done" /\ ValidInput /\ status = "ok") => ClampLawOf(returned)

\* C2: totality. For every valid input (T>0, H>0, m>=1, n>=1), windows wider than
\* the sequence included, the call completes and returns an output; it never panics
\* or reads a frame index outside 0..T-1.
C2_Total == ValidInput => status # "panic"

\* The valid inputs on which the code panics are exactly those whose window reaches
\* past the last frame while its start is at or left of frame 0.
PanicsExactlyWhenWindowOverrunsLeftBranches ==
    (pc = "done" /\ ValidInput) =>
        (status = "panic" <=>
            \E r \in 0 .. CeilDiv(n_frames, n) - 1 :
                /\ (r = 0 \/ (m - 1) \div 2 > r * n)
                /\ r * n - (m - 1) \div 2 + m - 1 > n_frames - 1)

\* C3: shape law. For T>0, H>0, m>=1, n>=1 the output of low_frame_rate has exactly
\* ceil(T/n) output frames, each of width H*m, and the batch size of the input.
C3_ShapeLaw ==
    (ValidInput /\ (output_frames # NoArray \/ returned # NoArray)) =>
        /\ output_frames # NoArray =>
              /\ output_frames.shape = <<batch_size, CeilDiv(n_frames, n), n_hidden * m>>
              /\ DOMAIN output_frames.data = Indices3(output_frames.shape)
        /\ returned # NoArray =>
              /\ returned.shape = <<batch_size, CeilDiv(n_frames, n), n_hidden * m>>
              /\ DOMAIN returned.data = Indices3(returned.shape)

\* C3 witness: an output was returned for a frame count the stride does not divide.
C3_Witness ==
    /\ ValidInput /\ status = "ok" /\ n > 1 /\ n_frames % n # 0
    /\ returned.shape = <<batch_size, n_frames \div n + 1, n_hidden * m>>

\* C4: invalid-input rejection. If T == 0, H == 0, m == 0 or n == 0 the call fails with
\* a distinguishable InvalidShape/InvalidParameter error value, detected before any
\* computation begins, and no output is returned.  (Stated leniently: a panic is
\* counted as a failure here, although it is no InvalidShape error value.)
C4_InvalidRejected ==
    (~ValidInput /\ pc = "done") =>
        /\ status \in {"InvalidShape", "InvalidParameter", "panic"}
        /\ returned = NoArray

\* C6: identity law. For T>0 and H>0, low_frame_rate(frames, m=1, n=1) returns an
\* output element-wise equal to frames: same shape, same values in the same order.
C6_Identity ==
    (pc = "done" /\ n_frames > 0 /\ n_hidden > 0 /\ m = 1 /\ n = 1) =>
        (status = "ok" /\ returned = frames)

\* C6 witness: an identity call on several frames of several elements has returned.
C6_Witness ==
    /\ pc = "done" /\ m = 1 /\ n = 1 /\ n_frames >= 3 /\ n_hidden >= 2
    /\ status = "ok" /\ returned = frames
    /\ \E b \in 0 .. batch_size - 1 :
          frames.data[<<b, 0, 0>>] # frames.data[<<b, n_frames - 1, 0>>]

\* slot j of output frame 0 holds input frame k, for every batch element
FirstFrameSlotIs(out, j, k) ==
    \A b \in 0 .. batch_size - 1, h \in 0 .. n_hidden - 1 :
        out.data[<<b, 0, j * n_hidden + h>>] = frames.data[<<b, k, h>>]

ScenarioA ==
    (pc = "done" /\ frames = MakeFrames(1, 5, 2, "ramp") /\ m = 3 /\ n = 2) =>
        /\ status = "ok"
        /\ returned.shape = <<1, 3, 6>>
        /\ [c \in 0 .. 5 |-> returned.data[<<0, 0, c>>]] = [c \in 0 .. 5 |-> <<0,0,0,0,1,1>>[c + 1]]
        /\ [c \in 0 .. 5 |-> returned.data[<<0, 1, c>>]] = [c \in 0 .. 5 |-> <<1,1,2,2,3,3>>[c + 1]]
        /\ [c \in 0 .. 5 |-> returned.data[<<0, 2, c>>]] = [c \in 0 .. 5 |-> <<3,3,4,4,4,4>>[c + 1]]


(***************************************************************************)
(* Claims about compute_decibel, checked under SpecDb.                     *)
(***************************************************************************)
RECURSIVE ExactEnergyFrom(_, _)
\* sum over k of r_k^2 in exact integer arithmetic
ExactEnergyFrom(row, k) ==
    IF k > Len(row) THEN 0 ELSE row[k] * row[k] + ExactEnergyFrom(row, k + 1)

ExactEnergy(r) == ExactEnergyFrom(Row(r), 1)

\* the energy of row r as the code computes it in f32
F32Energy(r) == SumF32([k \in 1 .. row_len |-> Pow2F32(Row(r)[k])], 0, 0)

Rows == 0 .. frame_len - 1

\* C5: invalid-input rejection in compute_decibel. If the frame dimension H == 0 the
\* call fails with InvalidShape rather than returning a value for each row.
C5_ZeroWidthRejected ==
    (db_pc = "done" /\ row_len = 0) =>
        (db_status = "InvalidShape" /\ db_returned = NoArray)

\* C7: row ownership under parallel execution. The result has exactly T rows of
\* one value each, output row r is the statistic of input row r only, and each
\* output slot is written exactly once, by the worker of its own row, in every
\* order in which the per-row workers run.
C7_RowOwnership ==
    /\ db_pc \in {"map", "done"} =>
          /\ DOMAIN db_buffer = Rows
          /\ \A r \in Rows :
                /\ db_writes[r] = (IF r \in db_done THEN 1 ELSE 0)
                /\ db_buffer[r] = (IF r \in db_done THEN Decibel(Row(r)) ELSE Uninit)
    /\ db_pc = "done" =>
          /\ db_returned.shape = <<frame_len, 1>>
          /\ DOMAIN db_returned.data = Rows \X {0}
          /\ \A r \in Rows :
                /\ db_returned.data[<<r, 0>>] = Decibel(Row(r))
                /\ db_writes[r] = 1

\* C7 witness: of two rows with different statistics the last one ran first; its
\* slot holds its own statistic and the slot of row 0 is still unwritten.
C7_Witness ==
    /\ db_pc = "map" /\ frame_len = 2 /\ row_len >= 1
    /\ db_done = {1}
    /\ Decibel(Row(0)) # Decibel(Row(1))
    /\ db_buffer[1] = Decibel(Row(1))
    /\ db_writes = [r \in Rows |-> IF r = 1 THEN 1 ELSE 0]

\* 1e-6 as an f32 energy: what .add(1e-6) makes of an all-zero frame
Eps32 == [int |-> 0, eps |-> TRUE]

\* C8: decibel value with epsilon floor. Every row r yields 10*log10(sum r_k^2 + 1e-6):
\* the argument of the logarithm is the sum of the squares of that row (whenever f32
\* holds that sum exactly) with 1e-6 added before the logarithm is taken.  In f32 the
\* added 1e-6 changes an energy below 32 (half a unit in the last place of [16, 32)
\* is 2^-20 < 1e-6) and is rounded away from 32 on (that of [32, 64) is 2^-19 > 1e-6).
\* An all-zero frame yields 10*log10(1e-6), never -infinity.
C8_EpsilonFloor ==
    db_pc = "done" =>
        \A r \in Rows :
            LET out == db_returned.data[<<r, 0>>]
                e == ExactEnergy(r)
            IN  /\ out.class = "finite"
                /\ e = 0 => out = Finite(Eps32)
                /\ e < 2 ^ F32MantissaBits =>
                      /\ out.ten_log10.int = e
                      /\ out.ten_log10.eps <=> e < 32

\* C8 witness: an all-zero frame of positive length has been given 10*log10(1e-6),
\* next to a frame of energy 2 (1e-6 visible in the sum) and one of energy 2^24
\* (1e-6 rounded away).
C8_Witness ==
    /\ db_pc = "done" /\ row_len = 2 /\ frame_len = 2
    /\ \A k \in 1 .. row_len : Row(0)[k] = 0
    /\ db_returned.data[<<0, 0>>] = Finite(Eps32)
    /\ ExactEnergy(1) \in {2, 2 ^ F32MantissaBits}
    /\ db_returned.data[<<1, 0>>] =
          Finite([int |-> ExactEnergy(1), eps |-> ExactEnergy(1) = 2])

\* C9 as claimed: for any two frames a and b with sum(a^2) > sum(b^2),
\* decibel(a) > decibel(b) strictly, wherever the rows stand in the input.
C9_StrictlyMonotone ==
    db_pc = "done" =>
        \A a, b \in Rows :
            ExactEnergy(a) > ExactEnergy(b) =>
                DbGreater(db_returned.data[<<a, 0>>], db_returned.data[<<b, 0>>])

\* C9 amended: for any two frames a and b whose energies as computed in f32
\* (row.pow2().sum()) satisfy E(a) > E(b), decibel(a) >= decibel(b), wherever the
\* rows stand in the input; frames whose f32 energies are equal get equal decibels
\* even when sum(a^2) > sum(b^2) in exact arithmetic.
C9_Monotone ==
    db_pc = "done" =>
        \A a, b \in Rows :
            /\ F32Energy(a) > F32Energy(b) =>
                  DbGeq(db_returned.data[<<a, 0>>], db_returned.data[<<b, 0>>])
            /\ F32Energy(a) = F32Energy(b) =>
                  db_returned.data[<<a, 0>>] = db_returned.data[<<b, 0>>]

\* C9 witness: row 1 has more energy than row 0 in exact arithmetic, f32 rounds both
\* sums to the same value, and the two decibels returned are equal.
C9_Witness ==
    /\ db_pc = "done" /\ frame_len = 2
    /\ ExactEnergy(1) > ExactEnergy(0)
    /\ F32Energy(1) = F32Energy(0)
    /\ db_returned.data[<<1, 0>>] = db_returned.data[<<0, 0>>]
    /\ db_returned.data[<<1, 0>>].class = "finite"

(***************************************************************************)
(* Claims about TextStreamSentencizer, checked under SpecTxt.              *)
(***************************************************************************)
Endings == level1_endings \cup level2_endings \cup level3_endings

HasEnding(s, endings) == \E k \in 1 .. Len(s) : s[k] \in endings

Last(s) == s[Len(s)]

\* C11: after a push, every returned sentence ends with a char of the
\* configured ending sets (of level 1, or of level 2 or 3 only when the
\* buffer held no level-1 ending), nothing is returned while the buffer
\* holds no ending char at all, and the buffer keeps exactly the text that
\* follows the last returned sentence.
C11_SplitsAtEndings ==
    last_op = "push" =>
        /\ \A k \in 1 .. Len(last_result) :
              LET sent == last_result[k]
              IN  /\ sent # <<>>
                  /\ \/ Last(sent) \in level1_endings
                     \/ /\ ~HasEnding(seen_buffer, level1_endings)
                        /\ Last(sent) \in level2_endings \cup level3_endings
        /\ (~HasEnding(seen_buffer, Endings) => last_result = <<>>)
        /\ seen_buffer = Concat(last_result) \o buffer

\* a push returned a sentence closed by a three-byte ending and kept the
\* text after it in the buffer
C11_Witness ==
    /\ last_op = "push"
    /\ last_result # <<>>
    /\ Last(last_result[Len(last_result)]) = "cjk_full_stop"
    /\ buffer # <<>>

\* C12: text conservation.  In every reachable state the strings returned by
\* push and flush since the last reset, concatenated in order and followed
\* by the buffer, are exactly the texts pushed since the last reset; after a
\* flush the buffer is empty, so the returned strings alone are the pushed
\* text.
C12_Conservation ==
    /\ returned_text \o buffer = pushed_text
    /\ (last_op = "flush" => buffer = <<>> /\ returned_text = pushed_text)

\* a flush returned a sentence and a remainder after an earlier push had
\* already returned a sentence, the text holding a three-byte char
C12_Witness ==
    /\ last_op = "flush"
    /\ Len(last_result) = 2
    /\ ~HasEnding(<<Last(last_result[2])>>, Endings)
    /\ Len(returned_text) > Len(Concat(last_result))
    /\ HasEnding(pushed_text, {"cjk_full_stop"})
    /\ returned_text = pushed_text

\* C13: minimum sentence length.  Every sentence a push returns has at least
\* min_sentence_length chars; of the strings a flush returns only the last
\* one, the final remainder, may be shorter.
C13_MinLength ==
    /\ last_op = "push" =>
          \A k \in 1 .. Len(last_result) :
              Len(last_result[k]) >= min_sentence_length
    /\ last_op = "flush" =>
          \A k \in 1 .. Len(last_result) - 1 :
              Len(last_result[k]) >= min_sentence_length

\* a push returned a sentence into which a too-short candidate was merged:
\* the sentence holds a level-1 ending before its last char, and it is
\* shorter in chars than in bytes
C13_Witness ==
    /\ last_op = "push"
    /\ Len(last_result) = 1
    /\ LET sent == last_result[1]
       IN  /\ Len(sent) = min_sentence_length
           /\ HasEnding(SubSeq(sent, 1, Len(sent) - 1), level1_endings)
           /\ Last(sent) \in level1_endings
           /\ ByteLen(sent) > Len(sent)

\* the byte offsets of the last byte of every char of s that is in endings
LastBytesOf(s, endings) ==
    {ByteOffset(s, k + 1) - 1 : k \in {j \in 1 .. Len(s) : s[j] \in endings}}

\* the split points of the last push or flush
SplitPoints == {end_indices[k] : k \in 1 .. Len(end_indices)}

\* the char of the buffer whose last byte is at byte offset b
EndingAt(b) == seen_buffer[CharAt(seen_buffer, b + 1) - 1]

\* C14: ending-level escalation.  In every push or flush that splits the
\* buffer: the split points are the level-1 endings whenever the buffer
\* holds one; a split at a level-2 ending happens only when the buffer holds
\* no level-1 ending and has more than use_level2_threshold chars, and then
\* the split points are the level-2 endings; a split at a level-3 ending
\* happens only when in addition the buffer holds no level-2 ending and has
\* more than use_level3_threshold chars.
C14_Escalation ==
    last_op \in {"push", "flush"} =>
        LET count == Len(seen_buffer)
            has1 == HasEnding(seen_buffer, level1_endings)
            has2 == HasEnding(seen_buffer, level2_endings)
        IN  /\ \A b \in SplitPoints : IsCharBoundary(seen_buffer, b + 1)
            /\ has1 => SplitPoints = LastBytesOf(seen_buffer, level1_endings)
            /\ \A b \in SplitPoints :
                  EndingAt(b) \in level2_endings \ level1_endings =>
                      /\ ~has1
                      /\ count > use_level2_threshold
                      /\ SplitPoints = LastBytesOf(seen_buffer, level2_endings)
            /\ \A b \in SplitPoints :
                  EndingAt(b) \in level3_endings
                                  \ (level1_endings \cup level2_endings) =>
                      /\ ~has1
                      /\ count > use_level2_threshold
                      /\ ~has2
                      /\ count > use_level3_threshold
                      /\ SplitPoints = LastBytesOf(seen_buffer, level3_endings)

\* a push split at a level-3 ending, with a threshold of level 3 below that
\* of level 2 and a three-byte char in the buffer
C14_Witness ==
    /\ last_op = "push"
    /\ last_result # <<>>
    /\ Last(last_result[1]) \in level3_endings
    /\ use_level3_threshold < use_level2_threshold
    /\ ByteLen(seen_buffer) > Len(seen_buffer)
====
